---- MODULE Spec2Model ----
(***************************************************************************)
(* A model of coreminer's debugging engine (src/src/debugger.rs): the      *)
(* Debugger object, its public operations, the dispatcher loop of          *)
(* run_debugger, and the traced child as the kernel presents it through    *)
(* ptrace and waitpid.                                                     *)
(*                                                                         *)
(* The debugger is single threaded.  An operation runs atomically from its *)
(* call up to a blocking waitpid; the tracee takes its own steps while it  *)
(* is running, and the operation goes on when waitpid has something to     *)
(* report.                                                                 *)
(***************************************************************************)
EXTENDS Integers, Sequences, FiniteSets, TLC

(***************************************************************************)
(* Bounds of the model.                                                    *)
(***************************************************************************)
\* number of one-byte instructions of the tracee's text: NOPs, then a RET
TextLen == 2
\* how many of the Debugger's methods are called directly, one after the
\* other, before run_debugger takes over
MaxApiCalls == 3

(***************************************************************************)
(* Program and machine constants.                                          *)
(***************************************************************************)
\* bytes of a ptrace word (crate::Word is 8 bytes on x86-64)
WordBytes == 8
\* the int3 opcode a breakpoint patches in
INT3 == 204
\* a one-byte instruction that falls through to the next address
NOP == 144
\* the instruction that ends the tracee's main: the process exits
RET == 195

Registers ==
  {"r9", "r8", "r10", "r11", "r12", "r13", "r14", "r15", "rip", "rbp", "rax",
   "rcx", "rbx", "rdx", "rsi", "rsp", "rdi", "orig_rax", "eflags", "es", "cs",
   "ss", "fs_base", "fs", "gs_base", "gs", "ds"}

\* the tracee's address space: address 0 is unmapped, text is 1..TextLen,
\* followed by WordBytes bytes of data, so that every text byte starts a word
\* and DataAddr starts a word outside the text
MemTop == TextLen + WordBytes
DataAddr == TextLen + 1
Addrs == 1 .. MemTop
TextAddrs == 1 .. TextLen
\* the child's rip at its post-exec stop
Entry == CHOOSE a \in TextAddrs : \A b \in TextAddrs : a <= b
Image == [a \in Addrs |-> IF a < TextLen THEN NOP ELSE IF a = TextLen THEN RET ELSE 0]

\* stands for 2^64 - 1, the value 0u64 - 1 wraps to in a release build
U64Max == 0 - 1

\* inputs the UI and the API's callers draw from
BpAddrs == {0, Entry, TextLen}
MemAddrs == {0, DataAddr}
CmdRegs == {"rip"}
CmdRegValues == {0, 2}
CmdWords == {[i \in 1 .. WordBytes |-> IF i = 1 THEN NOP ELSE 0]}
Signals == {"SIGUSR1"}
ExitCodes == {0, 42}
PathKinds == {"missing", "dir", "file"}

VARIABLES
  debuggee,     \* Debugger.debuggee is Some
  breakpoints,  \* Debuggee.breakpoints: address -> [enabled, saved_byte]
  inLoop,       \* control is inside run_debugger's loop
  feedback,     \* run_debugger's local `feedback`, handed to ui.process next
  pc,           \* where the debugger thread is
  inCont,       \* the step_over_bp in progress was called by cont
  contSig,      \* cont's `sig` argument
  sobAddr,      \* step_over_bp's maybe_bp_addr
  tstate,       \* the child: none, forked, running, stopped, zombie, reaped
  stepping,     \* the child was resumed by PTRACE_SINGLESTEP
  inject,       \* the signal the last resume delivers to the child
  event,        \* the wait status the kernel holds for the next waitpid
  stopsig,      \* the signal of the child's current stop
  hitBp,        \* the child's current stop came from executing an int3
  regs,         \* the child's register file
  mem,          \* the child's memory
  waited,       \* a waitpid has reported a status of the child since its fork
  apiCalls,     \* direct calls of the Debugger's methods so far
  cmd,          \* history: the operation in progress or last run, and its argument
  log,          \* history: system calls and tracee instructions since it began
  pre,          \* history: the state when it began
  lastResult,   \* history: what it returned
  lastWait,     \* history: what its last waitpid returned
  rdResult      \* history: how run_debugger last returned

vars ==
  <<debuggee, breakpoints, inLoop, feedback, pc, inCont, contSig, sobAddr,
    tstate, stepping, inject, event, stopsig, hitBp, regs, mem, waited,
    apiCalls, cmd, log, pre, lastResult, lastWait, rdResult>>

traceeVars == <<tstate, stepping, inject, event, stopsig, hitBp>>

(***************************************************************************)
(* Feedback and Result values.                                             *)
(***************************************************************************)
Fb(k, v) == [k |-> k, e |-> "", v |-> v]
FbOk == Fb("Ok", <<>>)
FbError(e) == [k |-> "Error", e |-> e, v |-> <<>>]
Ok(f) == [ok |-> TRUE, f |-> f, e |-> ""]
Err(e) == [ok |-> FALSE, f |-> Fb("None", <<>>), e |-> e]

\* impl From<Result<Feedback, DebuggerError>> for Feedback
FeedbackFrom(value) == IF value.ok THEN value.f ELSE FbError(value.e)

NoEvent == [t |-> "None", sig |-> "", code |-> 0]
Stopped(s) == [t |-> "Stopped", sig |-> s, code |-> 0]
Exited(c) == [t |-> "Exited", sig |-> "", code |-> c]
Signaled(s) == [t |-> "Signaled", sig |-> s, code |-> 0]

(***************************************************************************)
(* The part of the state an operation works on between two blocking calls, *)
(* threaded through the calls it makes: the tracee as the kernel holds it, *)
(* the breakpoint map, the history of system calls, and the first error.   *)
(***************************************************************************)
World(l) ==
  [mem |-> mem, regs |-> regs, bps |-> breakpoints, log |-> l, err |-> "",
   tstate |-> tstate, stepping |-> stepping, inject |-> inject, event |-> event,
   stopsig |-> stopsig, hitBp |-> hitBp, lastWait |-> lastWait, waited |-> waited]
\* a ptrace request reaches the child only while it is in a trace-stop
Traceable(w) == w.tstate = "stopped"
Log(w, op, a) == [w EXCEPT !.log = Append(@, <<op, a>>)]
Fail(w, e) == [w EXCEPT !.err = e]
Failed(w) == w.err # ""
\* a ptrace request issued while the child is not in a trace-stop fails with
\* ESRCH; the history notes whether the child was running (1) or gone (0)
NotStopped(w) ==
  Fail(Log(w, "not_stopped", IF w.tstate \in {"forked", "running"} THEN 1 ELSE 0), "Os(ESRCH)")

WordMapped(a) == a \in Addrs /\ a + WordBytes - 1 \in Addrs

\* the little-endian word at a: index 1 is the byte at a, the low byte
WordAt(m, a) == [i \in 1 .. WordBytes |-> m[a + i - 1]]
PutWord(m, a, word) ==
  [x \in Addrs |-> IF x >= a /\ x < a + WordBytes THEN word[x - a + 1] ELSE m[x]]

\* ptrace::getregs
getregs(w) ==
  LET w1 == Log(w, "getregs", 0)
  IN  IF Traceable(w) THEN w1 ELSE NotStopped(w1)

\* ptrace::setregs with field r of the bank set to v
setregs(w, r, v) ==
  LET w1 == Log(w, "setregs", v)
  IN  IF Traceable(w) THEN [w1 EXCEPT !.regs[r] = v] ELSE NotStopped(w1)

\* crate::mem_read_word: PTRACE_PEEKDATA
mem_read_word(w, a) ==
  LET w1 == Log(w, "peek", a)
  IN  IF ~Traceable(w) THEN NotStopped(w1)
      ELSE IF ~WordMapped(a) THEN Fail(w1, "Os(EIO)")
      ELSE w1

\* crate::mem_write_word: PTRACE_POKEDATA
mem_write_word(w, a, word) ==
  LET w1 == Log(w, "poke", a)
  IN  IF ~Traceable(w) THEN NotStopped(w1)
      ELSE IF ~WordMapped(a) THEN Fail(w1, "Os(EIO)")
      ELSE [w1 EXCEPT !.mem = PutWord(@, a, word)]

(***************************************************************************)
(* crate::breakpoint::Breakpoint, a value [enabled, saved_byte] at an      *)
(* address.  Each operation returns the world and the breakpoint after it. *)
(***************************************************************************)
NewBp == [enabled |-> FALSE, saved_byte |-> 0]
EmptyMap == [a \in {} |-> NewBp]

\* an enable that writes a word of its own instead of the word it read
BpEnableClobber(w, a, bp) ==
  IF bp.enabled THEN [w |-> Fail(w, "BreakpointIsAlreadyEnabled"), bp |-> bp]
  ELSE LET w1 == mem_read_word(w, a)
       IN  IF Failed(w1) THEN [w |-> w1, bp |-> bp]
           ELSE LET word == WordAt(w1.mem, a)
                    w2 == mem_write_word(w1, a, [i \in 1 .. WordBytes |-> IF i = 1 THEN INT3 ELSE 0])
                IN  IF Failed(w2) THEN [w |-> w2, bp |-> bp]
                    ELSE [w |-> w2, bp |-> [enabled |-> TRUE, saved_byte |-> word[1]]]

\* Breakpoint::enable
BpEnable(w, a, bp) ==
  IF bp.enabled THEN [w |-> Fail(w, "BreakpointIsAlreadyEnabled"), bp |-> bp]
  ELSE LET w1 == mem_read_word(w, a)
       IN  IF Failed(w1) THEN [w |-> w1, bp |-> bp]
           ELSE LET word == WordAt(w1.mem, a)
                    w2 == mem_write_word(w1, a, [word EXCEPT ![1] = INT3])
                IN  IF Failed(w2) THEN [w |-> w2, bp |-> bp]
                    ELSE [w |-> w2, bp |-> [enabled |-> TRUE, saved_byte |-> word[1]]]

\* a disable that restores the saved byte without looking at the flag
BpDisableUnchecked(w, a, bp) ==
  LET w1 == mem_read_word(w, a)
  IN  IF Failed(w1) THEN [w |-> w1, bp |-> bp]
      ELSE LET word == WordAt(w1.mem, a)
               w2 == mem_write_word(w1, a, [word EXCEPT ![1] = bp.saved_byte])
           IN  IF Failed(w2) THEN [w |-> w2, bp |-> bp]
               ELSE [w |-> w2, bp |-> [bp EXCEPT !.enabled = FALSE]]

\* Breakpoint::disable
BpDisable(w, a, bp) ==
  IF ~bp.enabled THEN [w |-> Fail(w, "BreakpointIsAlreadyDisabled"), bp |-> bp]
  ELSE LET w1 == mem_read_word(w, a)
       IN  IF Failed(w1) THEN [w |-> w1, bp |-> bp]
           ELSE LET word == WordAt(w1.mem, a)
                    w2 == mem_write_word(w1, a, [word EXCEPT ![1] = bp.saved_byte])
                IN  IF Failed(w2) THEN [w |-> w2, bp |-> bp]
                    ELSE [w |-> w2, bp |-> [bp EXCEPT !.enabled = FALSE]]

\* impl Drop for Breakpoint: an enabled breakpoint disables itself, and the
\* outcome of that disable is discarded
BpDrop(w, a, bp) ==
  IF bp.enabled THEN [BpDisable(w, a, bp).w EXCEPT !.err = w.err] ELSE w

MapInsert(bps, a, bp) == [x \in DOMAIN bps \cup {a} |-> IF x = a THEN bp ELSE bps[x]]
MapRemove(bps, a) == [x \in DOMAIN bps \ {a} |-> bps[x]]

(***************************************************************************)
(* Debugger operations that do not block: each maps the world at its call  *)
(* to the world at its return, the error in `err` when it returns Err.     *)
(***************************************************************************)
\* an err_if_no_debuggee that lets every caller through
err_if_no_debuggee_absent(w) == w
\* Debugger::err_if_no_debuggee
err_if_no_debuggee(w) == IF debuggee THEN w ELSE Fail(w, "NoDebugee")

\* a set_bp that inserts the breakpoint before it enables it
set_bp_insert_first(w, addr) ==
  LET w0 == err_if_no_debuggee(w)
  IN  IF Failed(w0) THEN w0
      ELSE LET r == BpEnable(w0, addr, NewBp)
           IN  [r.w EXCEPT !.bps = MapInsert(@, addr, r.bp)]
\* Debugger::set_bp
set_bp(w, addr) ==
  LET w0 == err_if_no_debuggee(w)
  IN  IF Failed(w0) THEN w0
      ELSE LET r == BpEnable(w0, addr, NewBp)
           IN  IF Failed(r.w) THEN r.w
               ELSE LET w1 == IF addr \in DOMAIN r.w.bps
                                THEN BpDrop(r.w, addr, r.w.bps[addr])
                                ELSE r.w
                    IN  [w1 EXCEPT !.bps = MapInsert(@, addr, r.bp)]

\* a del_bp that disables the breakpoint and leaves its entry in the map
del_bp_keeps_entry(w, addr) ==
  LET w0 == err_if_no_debuggee(w)
  IN  IF Failed(w0) THEN w0
      ELSE IF addr \in DOMAIN w0.bps
        THEN LET r == BpDisable(w0, addr, w0.bps[addr])
             IN  [r.w EXCEPT !.err = "", !.bps[addr] = r.bp]
        ELSE w0
\* Debugger::del_bp
del_bp(w, addr) ==
  LET w0 == err_if_no_debuggee(w)
  IN  IF Failed(w0) THEN w0
      ELSE IF addr \in DOMAIN w0.bps
        THEN [BpDrop(w0, addr, w0.bps[addr]) EXCEPT !.bps = MapRemove(@, addr)]
        ELSE w0

\* Debugger::get_reg: the field of the register bank that r names
get_reg(w, r) ==
  LET w0 == err_if_no_debuggee(w)
  IN  IF Failed(w0) THEN w0 ELSE getregs(w0)

\* Debugger::dump_regs
dump_regs(w) ==
  LET w0 == err_if_no_debuggee(w)
  IN  IF Failed(w0) THEN w0 ELSE getregs(w0)

\* a set_reg whose match arm for rbx assigns regs.rax
set_reg_wrong_field(w, r, v) ==
  LET w0 == err_if_no_debuggee(w)
  IN  IF Failed(w0) THEN w0
      ELSE LET w1 == getregs(w0)
           IN  IF Failed(w1) THEN w1 ELSE setregs(w1, IF r = "rbx" THEN "rax" ELSE r, v)
\* Debugger::set_reg
set_reg(w, r, v) ==
  LET w0 == err_if_no_debuggee(w)
  IN  IF Failed(w0) THEN w0
      ELSE LET w1 == getregs(w0)
           IN  IF Failed(w1) THEN w1 ELSE setregs(w1, r, v)

\* Debugger::read_mem
read_mem(w, addr) ==
  LET w0 == err_if_no_debuggee(w)
  IN  IF Failed(w0) THEN w0 ELSE mem_read_word(w0, addr)

\* Debugger::write_mem
write_mem(w, addr, value) ==
  LET w0 == err_if_no_debuggee(w)
  IN  IF Failed(w0) THEN w0 ELSE mem_write_word(w0, addr, value)

\* Debugger::disassemble_at, Debuggee::disassemble: read len bytes at addr
disassemble_at(w, addr, len) ==
  LET w0 == err_if_no_debuggee(w)
  IN  IF Failed(w0) THEN w0
      ELSE LET w1 == Log(w0, "read", addr)
           IN  IF ~Traceable(w1) THEN NotStopped(w1)
               ELSE IF ~(addr \in Addrs /\ addr + len - 1 \in Addrs) THEN Fail(w1, "Os(EIO)")
               ELSE w1

\* the kernel resumes the stopped child (PTRACE_SINGLESTEP, PTRACE_CONT)
Resume(w, step, sig) ==
  [w EXCEPT !.tstate = "running", !.stepping = step, !.inject = sig,
            !.event = NoEvent, !.stopsig = "", !.hitBp = FALSE]

\* Debugger::single_step: ptrace::step(pid, None)
single_step(w) ==
  LET w0 == err_if_no_debuggee(w)
  IN  IF Failed(w0) THEN w0
      ELSE LET w1 == Log(w0, "step", 0)
           IN  IF Traceable(w1) THEN Resume(w1, TRUE, "None") ELSE NotStopped(w1)

\* rip - 1 in u64: at rip = 0 the subtraction overflows
Probe(rip) == IF rip = 0 THEN U64Max ELSE rip - 1

\* a step_over_bp that steps without having disabled the breakpoint
StepOverStartNoDisable(w, ovf) ==
  LET w0 == err_if_no_debuggee(Log(w, "step_over_bp", 0))
      w1 == get_reg(w0, "rip")
      rip == w1.regs["rip"]
      probe == Probe(rip)
      w2 == set_reg(w1, "rip", probe)
      w4 == single_step(w2)
  IN  IF Failed(w0) THEN [w |-> w0, k |-> "err", probe |-> 0]
      ELSE IF Failed(w1) THEN [w |-> w1, k |-> "err", probe |-> 0]
      ELSE IF rip = 0 /\ ovf = "panic" THEN [w |-> w1, k |-> "panic", probe |-> 0]
      ELSE IF ~(probe \in DOMAIN w1.bps /\ w1.bps[probe].enabled)
        THEN [w |-> w1, k |-> "ok", probe |-> probe]
      ELSE IF Failed(w2) THEN [w |-> w2, k |-> "err", probe |-> probe]
      ELSE IF Failed(w4) THEN [w |-> w4, k |-> "err", probe |-> probe]
      ELSE [w |-> w4, k |-> "block", probe |-> probe]

\* a step_over_bp that rewinds rip before it looks for the breakpoint
StepOverStartRewindFirst(w, ovf) ==
  LET w0 == err_if_no_debuggee(Log(w, "step_over_bp", 0))
      w1 == get_reg(w0, "rip")
      rip == w1.regs["rip"]
      probe == Probe(rip)
      w2 == set_reg(w1, "rip", probe)
      r == BpDisable(w2, probe, w2.bps[probe])
      w3 == [r.w EXCEPT !.bps[probe] = r.bp]
      w4 == single_step(w3)
  IN  IF Failed(w0) THEN [w |-> w0, k |-> "err", probe |-> 0]
      ELSE IF Failed(w1) THEN [w |-> w1, k |-> "err", probe |-> 0]
      ELSE IF rip = 0 /\ ovf = "panic" THEN [w |-> w1, k |-> "panic", probe |-> 0]
      ELSE IF Failed(w2) THEN [w |-> w2, k |-> "err", probe |-> probe]
      ELSE IF ~(probe \in DOMAIN w1.bps /\ w1.bps[probe].enabled)
        THEN [w |-> w2, k |-> "ok", probe |-> probe]
      ELSE IF Failed(w3) THEN [w |-> w3, k |-> "err", probe |-> probe]
      ELSE IF Failed(w4) THEN [w |-> w4, k |-> "err", probe |-> probe]
      ELSE [w |-> w4, k |-> "block", probe |-> probe]

\* Debugger::step_over_bp from its call to its wait: k is how this part ends,
\* "err" (returns Err), "panic", "ok" (no breakpoint at rip - 1: returns Ok),
\* "block" (stepped, now in waitpid)
StepOverStart(w, ovf) ==
  LET w0 == err_if_no_debuggee(Log(w, "step_over_bp", 0))
      w1 == get_reg(w0, "rip")
      rip == w1.regs["rip"]
      probe == Probe(rip)
      w2 == set_reg(w1, "rip", probe)
      r == BpDisable(w2, probe, w2.bps[probe])
      w3 == [r.w EXCEPT !.bps[probe] = r.bp]
      w4 == single_step(w3)
  IN  IF Failed(w0) THEN [w |-> w0, k |-> "err", probe |-> 0]
      ELSE IF Failed(w1) THEN [w |-> w1, k |-> "err", probe |-> 0]
      ELSE IF rip = 0 /\ ovf = "panic" THEN [w |-> w1, k |-> "panic", probe |-> 0]
      ELSE IF ~(probe \in DOMAIN w1.bps /\ w1.bps[probe].enabled)
        THEN [w |-> w1, k |-> "ok", probe |-> probe]
      ELSE IF Failed(w2) THEN [w |-> w2, k |-> "err", probe |-> probe]
      ELSE IF Failed(w3) THEN [w |-> w3, k |-> "err", probe |-> probe]
      ELSE IF Failed(w4) THEN [w |-> w4, k |-> "err", probe |-> probe]
      ELSE [w |-> w4, k |-> "block", probe |-> probe]

\* Debugger::step_over_bp after its wait: re-enable the breakpoint
StepOverEnd(w, addr) ==
  LET r == BpEnable(w, addr, w.bps[addr])
  IN  [r.w EXCEPT !.bps[addr] = r.bp]

\* the ptrace::cont(pid, sig) of Debugger::cont
ptrace_cont(w, sig) ==
  LET w1 == Log(w, "cont", 0)
  IN  IF Traceable(w1) THEN Resume(w1, FALSE, sig) ELSE NotStopped(w1)

\* waitpid(pid, None) has something to return
WaitReady == event.t # "None" \/ tstate = "reaped"

\* Debugger::wait returning (err_if_no_debuggee passed when it was called):
\* the status the kernel holds is taken, an exited child is reaped, and with
\* no child left waitpid fails
waitpid(w) ==
  LET w1 == Log(w, "waitpid", 0)
  IN  IF w1.event.t = "None" THEN Fail(w1, "Os(ECHILD)")
      ELSE [w1 EXCEPT !.lastWait = w1.event,
                      !.waited = TRUE,
                      !.event = NoEvent,
                      !.tstate = IF w1.event.t \in {"Exited", "Signaled"}
                                   THEN "reaped" ELSE @]

(***************************************************************************)
(* Initial state: Debugger::build, no debuggee and no child.               *)
(***************************************************************************)
ZeroRegs == [r \in Registers |-> 0]
\* what the history keeps of the state in which an operation began.  For an
\* operation that resumes the tracee: the tracee's stop, its rip and the
\* breakpoint map.  For set_bp and del_bp: the breakpoint map and the memory.
\* For a del_bp that comes right after a successful set_bp of the same
\* address: after = "set_bp", and in mem0 the memory before that set_bp.
\* For launch_debuggee: whether a debuggee existed, the child, the map, and
\* what the path named.  For set_reg and get_reg: see RegSnapshot.
NoSnapshot ==
  [tstate |-> "none", stopsig |-> "", hitBp |-> FALSE, rip |-> 0, bps |-> EmptyMap,
   mem |-> Image, mem0 |-> Image, after |-> "", debuggee |-> FALSE, path |-> "",
   reg |-> "", reg0 |-> "", val |-> 0, regs |-> ZeroRegs]
Snapshot(name, a) ==
  IF name \in {"cont", "step_over_bp", "single_step"}
    THEN [NoSnapshot EXCEPT !.tstate = tstate, !.stopsig = stopsig, !.hitBp = hitBp,
                            !.rip = regs["rip"], !.bps = breakpoints,
                            !.mem = mem, !.regs = regs]
  ELSE IF name = "set_bp"
    THEN [NoSnapshot EXCEPT !.bps = breakpoints, !.mem = mem]
  ELSE IF name = "del_bp" /\ cmd = [name |-> "set_bp", a |-> a] /\ lastResult.ok
    THEN [NoSnapshot EXCEPT !.bps = breakpoints, !.mem = mem, !.mem0 = pre.mem,
                            !.after = "set_bp"]
  ELSE IF name = "del_bp"
    THEN [NoSnapshot EXCEPT !.bps = breakpoints, !.mem = mem]
  ELSE NoSnapshot

\* everything but the operation in progress
InitState ==
  /\ debuggee = FALSE
  /\ breakpoints = EmptyMap
  /\ inLoop = FALSE
  /\ feedback = FbOk
  /\ pc = "ready"
  /\ inCont = FALSE
  /\ contSig = "None"
  /\ sobAddr = 0
  /\ tstate = "none"
  /\ stepping = FALSE
  /\ inject = "None"
  /\ event = NoEvent
  /\ stopsig = ""
  /\ hitBp = FALSE
  /\ regs = ZeroRegs
  /\ mem = Image
  /\ waited = FALSE
  /\ apiCalls = 0
  /\ log = <<>>
  /\ pre = NoSnapshot
  /\ lastResult = Ok(Fb("Unit", <<>>))
  /\ lastWait = NoEvent
  /\ rdResult = "none"

Init ==
  /\ InitState
  /\ cmd = [name |-> "build", a |-> 0]

(***************************************************************************)
(* Building blocks of the actions.                                         *)
(***************************************************************************)
\* a caller may start an operation: the UI inside run_debugger's loop through
\* a Status, anyone else through the Debugger's public methods
InUi == pc = "ready" /\ inLoop
InApi == pc = "ready" /\ ~inLoop /\ rdResult = "none" /\ apiCalls < MaxApiCalls
Ready == InUi \/ InApi

World0 == [World(<<>>) EXCEPT !.lastWait = NoEvent]
Res(w, f) == IF Failed(w) THEN Err(w.err) ELSE Ok(f)

BeginWith(name, a, snapshot) ==
  /\ cmd' = [name |-> name, a |-> a]
  /\ apiCalls' = IF name = "run_debugger" THEN 0
                 ELSE IF inLoop \/ rdResult # "none" \/ name = "launch_debuggee" THEN apiCalls
                 ELSE apiCalls + 1
  /\ pre' = snapshot

Begin(name, a) == BeginWith(name, a, Snapshot(name, a))

Commit(w) ==
  /\ mem' = w.mem
  /\ regs' = w.regs
  /\ breakpoints' = w.bps
  /\ log' = w.log
  /\ tstate' = w.tstate
  /\ stepping' = w.stepping
  /\ inject' = w.inject
  /\ event' = w.event
  /\ stopsig' = w.stopsig
  /\ hitBp' = w.hitBp
  /\ lastWait' = w.lastWait
  /\ waited' = w.waited

\* the operation returns res to its caller; in the loop of run_debugger the
\* result becomes the next feedback (debugger.rs:223-243)
Finish(w, res) ==
  /\ Commit(w)
  /\ lastResult' = res
  /\ feedback' = IF inLoop THEN FeedbackFrom(res) ELSE feedback
  /\ pc' = "ready"
  /\ inCont' = FALSE
  /\ contSig' = "None"
  /\ sobAddr' = 0

\* the operation panics: the thread unwinds out of every caller
Panic(w) ==
  /\ Commit(w)
  /\ pc' = "panic"
  /\ UNCHANGED <<lastResult, feedback, inCont, contSig, sobAddr>>

\* the operation blocks in waitpid at position p, its locals alive
Block(w, p, byCont, sig, addr) ==
  /\ Commit(w)
  /\ pc' = p
  /\ inCont' = byCont
  /\ contSig' = sig
  /\ sobAddr' = addr
  /\ UNCHANGED <<lastResult, feedback>>

\* a simple operation: runs to its return without blocking
Simple(name, a, w, f) ==
  /\ Begin(name, a)
  /\ Finish(w, Res(w, f))
  /\ UNCHANGED <<debuggee, inLoop, rdResult>>

(***************************************************************************)
(* The operations that neither resume the tracee nor wait for it.          *)
(***************************************************************************)
SetBreakpoint(addr) ==
  /\ Ready
  /\ Simple("set_bp", addr, set_bp(World0, addr), FbOk)

DelBreakpoint(addr) ==
  /\ Ready
  /\ Simple("del_bp", addr, del_bp(World0, addr), FbOk)

DumpRegisters ==
  /\ Ready
  /\ Simple("dump_regs", 0, dump_regs(World0), Fb("Registers", <<regs["rip"], regs["rax"]>>))

\* the history of set_reg(r, v): the register, the value and the register
\* bank before it.  Of a get_reg(r): the register, and, when it comes right
\* after a set_reg that returned Ok, after = "set_reg" with that set_reg's
\* register in reg0, its value and the bank before it.
RegSnapshot(name, r, v) ==
  IF name = "set_reg"
    THEN [NoSnapshot EXCEPT !.reg = r, !.val = v, !.regs = regs]
  ELSE IF cmd.name = "set_reg" /\ lastResult.ok
    THEN [NoSnapshot EXCEPT !.reg = r, !.reg0 = pre.reg, !.val = pre.val,
                            !.regs = pre.regs, !.after = "set_reg"]
  ELSE [NoSnapshot EXCEPT !.reg = r]

SetRegister(r, v) ==
  /\ Ready
  /\ BeginWith("set_reg", v, RegSnapshot("set_reg", r, v))
  /\ LET w == set_reg(World0, r, v)
     IN  Finish(w, Res(w, FbOk))
  /\ UNCHANGED <<debuggee, inLoop, rdResult>>

GetRegister(r) ==
  /\ InApi
  /\ BeginWith("get_reg", 0, RegSnapshot("get_reg", r, 0))
  /\ LET w == get_reg(World0, r)
     IN  Finish(w, Res(w, Fb("u64", <<w.regs[r]>>)))
  /\ UNCHANGED <<debuggee, inLoop, rdResult>>

WriteMem(addr, value) ==
  /\ Ready
  /\ Simple("write_mem", addr, write_mem(World0, addr, value), FbOk)

ReadMem(addr) ==
  /\ Ready
  /\ Simple("read_mem", addr, read_mem(World0, addr),
            Fb("Word", IF WordMapped(addr) THEN WordAt(mem, addr) ELSE <<>>))

DisassembleAt(addr, len) ==
  /\ Ready
  /\ Simple("disassemble_at", addr, disassemble_at(World0, addr, len),
            Fb("Disassembly", <<addr, len>>))

\* Debugger::get_symbol_by_name: Debuggee::get_symbol_by_name is todo!()
GetSymbolsByName ==
  /\ Ready
  /\ Begin("get_symbol_by_name", 0)
  /\ LET w == err_if_no_debuggee(World0)
     IN  IF Failed(w) THEN Finish(w, Res(w, FbOk)) ELSE Panic(w)
  /\ UNCHANGED <<debuggee, inLoop, rdResult>>

(***************************************************************************)
(* The operations that resume the tracee or wait for it.                   *)
(***************************************************************************)
Unit == Fb("Unit", <<>>)

\* Debugger::single_step called by itself: it returns once the step is issued
SingleStep ==
  /\ InApi
  /\ Simple("single_step", 0, single_step(World0), FbOk)

\* Debugger::cont from its ptrace::cont on: resume, then block in wait
ContResume(w, sig) ==
  LET w1 == ptrace_cont(w, sig)
  IN  IF Failed(w1) THEN Finish(w1, Err(w1.err))
      ELSE Block(w1, "cont_wait", TRUE, sig, 0)

\* the part of step_over_bp before its wait, called by itself
\* (byCont = FALSE) or as the first thing cont does after err_if_no_debuggee
StepOverFrom(byCont, sig, ovf) ==
  LET s == StepOverStart(World0, ovf)
  IN  /\ UNCHANGED <<debuggee, inLoop, rdResult>>
      /\ CASE s.k = "err" -> Finish(s.w, Err(s.w.err))
           [] s.k = "panic" -> Panic(s.w)
           [] s.k = "block" -> Block(s.w, "sob_wait", byCont, sig, s.probe)
           [] s.k = "ok" /\ ~byCont -> Finish(s.w, Ok(Unit))
           [] s.k = "ok" /\ byCont -> ContResume(s.w, sig)

\* Debugger::step_over_bp called by itself
StepOverBp(ovf) ==
  /\ InApi
  /\ Begin("step_over_bp", 0)
  /\ StepOverFrom(FALSE, "None", ovf)

\* Debugger::cont: the dispatcher passes None for sig (debugger.rs:231)
Cont(sig, ovf) ==
  /\ Ready
  /\ inLoop => sig = "None"
  /\ Begin("cont", 0)
  /\ StepOverFrom(TRUE, sig, ovf)

\* the wait of step_over_bp returns; the breakpoint is enabled again, and a
\* step_over_bp called by cont goes on to ptrace::cont
StepOverWaitReturn ==
  /\ pc = "sob_wait"
  /\ WaitReady
  /\ LET w == waitpid(World(log))
         w1 == StepOverEnd(w, sobAddr)
     IN  IF Failed(w) THEN Finish(w, Err(w.err))
         ELSE IF Failed(w1) THEN Finish(w1, Err(w1.err))
         ELSE IF ~inCont THEN Finish(w1, Ok(Unit))
         ELSE ContResume(w1, contSig)
  /\ UNCHANGED <<debuggee, inLoop, apiCalls, cmd, pre, rdResult>>

\* the wait of cont returns: cont returns Ok(Feedback::Ok) whatever the status
ContWaitReturn ==
  /\ pc = "cont_wait"
  /\ WaitReady
  /\ LET w == waitpid(World(log))
     IN  Finish(w, Res(w, FbOk))
  /\ UNCHANGED <<debuggee, inLoop, apiCalls, cmd, pre, rdResult>>

\* Debugger::wait called by itself
Wait ==
  /\ InApi
  /\ Begin("wait", 0)
  /\ LET w == err_if_no_debuggee(World0)
     IN  IF Failed(w) THEN Finish(w, Err(w.err)) ELSE Block(w, "wait_wait", FALSE, "None", 0)
  /\ UNCHANGED <<debuggee, inLoop, rdResult>>

WaitReturn ==
  /\ pc = "wait_wait"
  /\ WaitReady
  /\ LET w == waitpid(World(log))
     IN  Finish(w, Res(w, Fb("WaitStatus", <<>>)))
  /\ UNCHANGED <<debuggee, inLoop, apiCalls, cmd, pre, rdResult>>

\* Debugger::cleanup: PTRACE_KILL reaches a child that has not been reaped
Cleanup ==
  /\ pc = "ready" /\ ~inLoop /\ (rdResult = "none" => apiCalls < MaxApiCalls)
  /\ LET w0 == Log(World0, "kill", 0)
         w == IF ~debuggee THEN World0
              ELSE IF w0.tstate \in {"stopped", "running", "forked"}
                THEN [w0 EXCEPT !.tstate = "zombie", !.event = Signaled("SIGKILL"),
                                !.stopsig = "", !.hitBp = FALSE]
              ELSE Fail(w0, "Os(ESRCH)")
     IN  Simple("cleanup", 0, w, Unit)

(***************************************************************************)
(* Launching and the dispatcher.                                           *)
(***************************************************************************)
\* a launch_debuggee that forks without looking at the path
launch_error_unchecked(path, objOk, forkOk) ==
  IF ~objOk THEN "Object" ELSE IF ~forkOk THEN "Os(EAGAIN)" ELSE ""
\* the error launch_debuggee returns, "" when it returns Ok.  path is what
\* the file system holds at executable_path, objOk whether
\* CMDebugInfo::build accepts the object file, forkOk whether fork succeeds.
launch_error(path, objOk, forkOk) ==
  IF path = "missing" THEN "ExecutableDoesNotExist"
  ELSE IF path = "dir" THEN "ExecutableIsNotAFile"
  ELSE IF ~objOk THEN "Object"
  ELSE IF ~forkOk THEN "Os(EAGAIN)"
  ELSE ""

\* Debugger::launch_debuggee, as the parent sees it: fork is reached when the
\* path checks and CMDebugInfo::build have passed, and the new Debuggee
\* replaces whatever self.debuggee held
LaunchDebuggee(path, objOk, forkOk) ==
  /\ InApi
  /\ cmd' = [name |-> "launch_debuggee", a |-> 0]
  /\ apiCalls' = apiCalls
  /\ pre' = [NoSnapshot EXCEPT !.debuggee = debuggee, !.path = path, !.tstate = tstate,
                               !.bps = breakpoints, !.mem = mem]
  /\ LET e == launch_error(path, objOk, forkOk)
         w0 == IF e \in {"", "Os(EAGAIN)"} THEN Log(World0, "fork", 0) ELSE World0
         w == [w0 EXCEPT !.mem = Image, !.regs = ZeroRegs, !.bps = EmptyMap,
                         !.tstate = "forked", !.stepping = FALSE,
                         !.inject = "None", !.event = NoEvent,
                         !.stopsig = "", !.hitBp = FALSE, !.waited = FALSE]
     IN  IF e # ""
           THEN Finish(w0, Err(e)) /\ UNCHANGED debuggee
           ELSE Finish(w, Ok(Unit)) /\ debuggee' = TRUE
  /\ UNCHANGED <<inLoop, rdResult>>

\* Debugger::run_debugger up to its first wait (debugger.rs:210)
RunDebugger ==
  /\ InApi
  /\ Begin("run_debugger", 0)
  /\ LET w == err_if_no_debuggee(World0)
     IN  IF Failed(w)
           THEN Finish(w, Err(w.err)) /\ rdResult' = "Err"
           ELSE Block(w, "rd_wait", FALSE, "None", 0) /\ UNCHANGED rdResult
  /\ UNCHANGED <<debuggee, inLoop>>

\* run_debugger from the return of its first wait to the loop
\* (debugger.rs:210-220); get_base_addr reads /proc/<pid>/maps, which is
\* gone once the child has been reaped
RunDebuggerWaitReturn ==
  /\ pc = "rd_wait"
  /\ WaitReady
  /\ LET w == waitpid(World(log))
     IN  IF Failed(w) \/ w.tstate = "reaped"
           THEN /\ Finish(w, Err(IF Failed(w) THEN w.err ELSE "Io"))
                /\ rdResult' = "Err"
                /\ UNCHANGED inLoop
           ELSE /\ Commit(w)
                /\ feedback' = FbOk
                /\ inLoop' = TRUE
                /\ pc' = "ready"
                /\ UNCHANGED <<lastResult, rdResult, inCont, contSig, sobAddr>>
  /\ UNCHANGED <<debuggee, apiCalls, cmd, pre>>

\* ui.process returns Ok(Status::DebuggerQuit): break, run_debugger returns Ok
UiQuit ==
  /\ InUi
  /\ Begin("quit", 0)
  /\ inLoop' = FALSE
  /\ rdResult' = "Ok"
  /\ log' = <<>>
  /\ UNCHANGED <<debuggee, breakpoints, feedback, pc, inCont, contSig, sobAddr, waited,
                 traceeVars, regs, mem, lastResult, lastWait>>

\* ui.process returns Err(e): run_debugger returns Err(e)
UiError ==
  /\ InUi
  /\ Begin("ui_error", 0)
  /\ inLoop' = FALSE
  /\ rdResult' = "UiErr"
  /\ log' = <<>>
  /\ UNCHANGED <<debuggee, breakpoints, feedback, pc, inCont, contSig, sobAddr, waited,
                 traceeVars, regs, mem, lastResult, lastWait>>

(***************************************************************************)
(* The tracee.                                                             *)
(***************************************************************************)
TraceeLog(op, a) == log' = Append(log, <<op, a>>)

\* the forked child: PTRACE_TRACEME, then execv, which stops it with SIGTRAP
TraceeStart ==
  /\ tstate = "forked"
  /\ tstate' = "stopped"
  /\ stopsig' = "SIGTRAP"
  /\ event' = Stopped("SIGTRAP")
  /\ regs' = [regs EXCEPT !["rip"] = Entry]
  /\ TraceeLog("execv", 0)
  /\ UNCHANGED <<debuggee, breakpoints, inLoop, feedback, pc, inCont, contSig, sobAddr, waited,
                 stepping, inject, hitBp, mem, apiCalls, cmd, pre, lastResult, lastWait,
                 rdResult>>

\* the child stops and the kernel holds the status for the tracer
TraceeStop(sig, bp) ==
  /\ tstate' = "stopped"
  /\ stopsig' = sig
  /\ hitBp' = bp
  /\ event' = Stopped(sig)
  /\ stepping' = FALSE

\* the running child executes the instruction at rip
TraceeInstr(code) ==
  /\ tstate = "running"
  /\ inject = "None"
  /\ LET ip == regs["rip"]
     IN  IF ip \notin TextAddrs
           THEN /\ TraceeStop("SIGSEGV", FALSE)
                /\ TraceeLog("fault", ip)
                /\ UNCHANGED regs
         ELSE IF mem[ip] = INT3
           THEN /\ TraceeStop("SIGTRAP", TRUE)
                /\ TraceeLog("int3", ip)
                /\ regs' = [regs EXCEPT !["rip"] = ip + 1]
         ELSE IF mem[ip] = RET
           THEN /\ tstate' = "zombie"
                /\ event' = Exited(code)
                /\ stopsig' = ""
                /\ TraceeLog("exec", ip)
                /\ UNCHANGED <<regs, hitBp, stepping>>
         ELSE /\ regs' = [regs EXCEPT !["rip"] = ip + 1]
              /\ TraceeLog("exec", ip)
              /\ IF stepping
                   THEN TraceeStop("SIGTRAP", FALSE)
                   ELSE UNCHANGED <<tstate, stopsig, hitBp, event, stepping>>
  /\ UNCHANGED <<debuggee, breakpoints, inLoop, feedback, pc, inCont, contSig, sobAddr, waited,
                 inject, mem, apiCalls, cmd, pre, lastResult, lastWait, rdResult>>

\* a signal arrives for the running child: signal-delivery stop
TraceeSignal(sig) ==
  /\ tstate = "running"
  /\ inject = "None"
  /\ TraceeStop(sig, FALSE)
  /\ TraceeLog("signal", 0)
  /\ UNCHANGED <<debuggee, breakpoints, inLoop, feedback, pc, inCont, contSig, sobAddr, waited,
                 inject, regs, mem, apiCalls, cmd, pre, lastResult, lastWait, rdResult>>

\* the signal injected by the resume is delivered: its default action ends
\* the child
TraceeKilled ==
  /\ tstate = "running"
  /\ inject # "None"
  /\ tstate' = "zombie"
  /\ event' = Signaled(inject)
  /\ inject' = "None"
  /\ TraceeLog("killed", 0)
  /\ UNCHANGED <<debuggee, breakpoints, inLoop, feedback, pc, inCont, contSig, sobAddr, waited,
                 stepping, stopsig, hitBp, regs, mem, apiCalls, cmd, pre, lastResult,
                 lastWait, rdResult>>

Next ==
  \/ \E a \in BpAddrs : SetBreakpoint(a)
  \/ \E a \in BpAddrs : DelBreakpoint(a)
  \/ DumpRegisters
  \/ \E r \in CmdRegs, v \in CmdRegValues : SetRegister(r, v)
  \/ \E r \in CmdRegs : GetRegister(r)
  \/ \E a \in MemAddrs, v \in CmdWords : WriteMem(a, v)
  \/ \E a \in MemAddrs : ReadMem(a)
  \/ \E a \in MemAddrs : DisassembleAt(a, 1)
  \/ GetSymbolsByName
  \/ SingleStep
  \/ \E ovf \in {"panic", "wrap"} : StepOverBp(ovf)
  \/ \E sig \in {"None"} \cup Signals, ovf \in {"panic", "wrap"} : Cont(sig, ovf)
  \/ StepOverWaitReturn
  \/ ContWaitReturn
  \/ Wait
  \/ WaitReturn
  \/ Cleanup
  \/ \E p \in PathKinds, objOk \in BOOLEAN, forkOk \in BOOLEAN : LaunchDebuggee(p, objOk, forkOk)
  \/ RunDebugger
  \/ RunDebuggerWaitReturn
  \/ UiQuit
  \/ UiError
  \/ TraceeStart
  \/ \E c \in ExitCodes : TraceeInstr(c)
  \/ \E s \in Signals : TraceeSignal(s)
  \/ TraceeKilled

Spec == Init /\ [][Next]_vars

(***************************************************************************)
(* Reading the history.                                                    *)
(***************************************************************************)
HasOp(op) == \E i \in DOMAIN log : log[i][1] = op
Count(op, a) == Cardinality({i \in DOMAIN log : log[i] = <<op, a>>})
\* the ptrace and waitpid calls of the operation, in the order it made them
SysOps == {"getregs", "setregs", "peek", "poke", "read", "step", "cont", "waitpid", "kill"}
SysCalls == SelectSeq(log, LAMBDA e : e[1] \in SysOps)
\* the calls that write to the tracee, resume it or wait for it
Effects == SelectSeq(log, LAMBDA e : e[1] \in {"setregs", "peek", "poke", "step", "cont", "waitpid"})
Returned == pc = "ready"

(***************************************************************************)
(* Resuming the tracee.                                                    *)
(***************************************************************************)
\* C1: an operation that resumes the tracee (cont, single_step) runs
\* step_over_bp first and, after the resume, waits for the tracee before it
\* returns: when it has returned Ok, its history starts with step_over_bp,
\* every resume in it is followed by a waitpid, and the tracee is not running.
C1_ResumeIsWrapped ==
  (Returned /\ cmd.name \in {"cont", "single_step"} /\ lastResult.ok) =>
    /\ log # <<>> /\ log[1] = <<"step_over_bp", 0>>
    /\ \A i \in DOMAIN log :
         log[i][1] \in {"step", "cont"} => \E j \in DOMAIN log : j > i /\ log[j][1] = "waitpid"
    /\ tstate # "running"

\* the operation began with the tracee stopped and an enabled breakpoint
\* registered at rip - 1
AtEnabledBp ==
  /\ debuggee
  /\ pre.tstate = "stopped"
  /\ pre.rip > 0
  /\ pre.rip - 1 \in DOMAIN pre.bps
  /\ pre.bps[pre.rip - 1].enabled
StepOverOrder ==
  <<<<"setregs", pre.rip - 1>>, <<"peek", pre.rip - 1>>, <<"poke", pre.rip - 1>>,
    <<"step", 0>>, <<"waitpid", 0>>, <<"peek", pre.rip - 1>>, <<"poke", pre.rip - 1>>>>
StepOverDone ==
  \/ Returned /\ lastResult.ok
  \/ HasOp("cont")

\* C2: with an enabled breakpoint registered at rip - 1, step_over_bp sets rip
\* to rip - 1, disables the breakpoint (a read and a write of the word at
\* it), single-steps once, waits, and enables the breakpoint again, in this
\* order; while it waits the breakpoint is disabled and its byte restored;
\* when it has returned Ok (to its caller, or to cont, which then resumes) the
\* breakpoint is in the map and enabled.
C2_StepOverOrder ==
  (cmd.name \in {"step_over_bp", "cont"} /\ AtEnabledBp) =>
    /\ Len(Effects) >= 4
    /\ \A i \in 1 .. Len(StepOverOrder) : i <= Len(Effects) => Effects[i] = StepOverOrder[i]
    /\ pc = "sob_wait" =>
         /\ Len(Effects) = 4
         /\ ~breakpoints[pre.rip - 1].enabled
         /\ mem[pre.rip - 1] = pre.bps[pre.rip - 1].saved_byte
    /\ StepOverDone =>
         /\ Len(Effects) >= Len(StepOverOrder)
         /\ pre.rip - 1 \in DOMAIN breakpoints
         /\ breakpoints[pre.rip - 1].enabled
         /\ mem[pre.rip - 1] = INT3

C2_Witness ==
  /\ Returned
  /\ cmd.name = "step_over_bp"
  /\ AtEnabledBp
  /\ pre.hitBp
  /\ lastResult.ok
  /\ Effects = StepOverOrder
  /\ Count("exec", pre.rip - 1) = 1
  /\ breakpoints[pre.rip - 1].enabled

\* the cont began with the tracee stopped by the int3 of the only
\* breakpoint, which covers the original instruction at rip - 1
StoppedAtOnlyBp ==
  /\ cmd.name = "cont"
  /\ AtEnabledBp
  /\ pre.hitBp
  /\ DOMAIN pre.bps = {pre.rip - 1}
  /\ pre.bps[pre.rip - 1].saved_byte = Image[pre.rip - 1]

\* C3: from a tracee stopped by the only breakpoint, set at A over
\* instruction I, one cont makes the tracee execute I once, never the int3
\* at A and never I twice; when the cont has returned and the tracee is
\* alive, the byte at A is 0xCC.
C3_OriginalRunsOnce ==
  StoppedAtOnlyBp =>
    /\ Count("int3", pre.rip - 1) = 0
    /\ Count("exec", pre.rip - 1) <= 1
    /\ Returned =>
         /\ Count("exec", pre.rip - 1) = 1
         /\ tstate \in {"stopped", "running"} => mem[pre.rip - 1] = INT3

(***************************************************************************)
(* Breakpoints.                                                            *)
(***************************************************************************)
\* C4: set_bp(A) with a breakpoint already set at A returns Ok and changes
\* nothing: the byte at A is still 0xCC, the entry is still enabled and its
\* saved byte is still the one it had.
C4_SetBpTwiceIsNoOp ==
  (Returned /\ cmd.name = "set_bp" /\ debuggee /\ tstate = "stopped"
     /\ cmd.a \in DOMAIN pre.bps /\ pre.bps[cmd.a].enabled /\ pre.mem[cmd.a] = INT3) =>
    /\ lastResult.ok
    /\ mem[cmd.a] = INT3
    /\ cmd.a \in DOMAIN breakpoints
    /\ breakpoints[cmd.a] = pre.bps[cmd.a]

DebuggeeCommands ==
  {"cont", "set_bp", "del_bp", "dump_regs", "get_reg", "set_reg", "read_mem",
   "write_mem", "single_step", "step_over_bp", "disassemble_at",
   "get_symbol_by_name", "wait"}

\* C6: with no debuggee, each of cont, set_bp, del_bp, dump_regs, get_reg,
\* set_reg, read_mem, write_mem, single_step, step_over_bp, disassemble_at,
\* get_symbol_by_name and wait returns Err(NoDebugee), makes no ptrace or
\* waitpid call, and leaves the debugger as it was built.
C6_NoDebuggee ==
  (~debuggee /\ cmd.name \in DebuggeeCommands) =>
    /\ Returned
    /\ lastResult = Err("NoDebugee")
    /\ SysCalls = <<>>
    /\ breakpoints = EmptyMap
    /\ tstate = "none"
    /\ event = NoEvent
    /\ mem = Image
    /\ regs = ZeroRegs
    /\ ~inLoop

C6_Witness ==
  /\ ~debuggee
  /\ cmd.name = "cont"
  /\ lastResult = Err("NoDebugee")
  /\ log = <<<<"step_over_bp", 0>>>>

(***************************************************************************)
(* Exit and signals.                                                       *)
(***************************************************************************)
\* C7: when the waitpid after the resume of a Continue reports that the
\* tracee exited with code c, the feedback for that Continue is Exit(c).
C7_ExitFeedback ==
  (InUi /\ cmd.name = "cont" /\ HasOp("cont") /\ log[Len(log)][1] = "waitpid"
     /\ lastWait.t = "Exited") =>
    feedback = Fb("Exit", <<lastWait.code>>)

\* C8: once a waitpid has reported the tracee's exit, the debuggee is None.
C8_ExitClearsDebuggee ==
  (Returned /\ tstate = "reaped") => ~debuggee

\* C9: a Continue that begins with the tracee in a signal-delivery stop for a
\* signal other than SIGTRAP resumes the tracee with that signal.
C9_SignalInjected ==
  (inLoop /\ pc = "cont_wait" /\ cmd.name = "cont" /\ pre.tstate = "stopped"
     /\ pre.stopsig \in Signals \cup {"SIGSEGV"} /\ ~HasOp("step")) =>
    contSig = pre.stopsig

(***************************************************************************)
(* The dispatcher.                                                         *)
(***************************************************************************)
UiCommands ==
  {"cont", "set_bp", "del_bp", "dump_regs", "set_reg", "read_mem", "write_mem",
   "disassemble_at", "get_symbol_by_name"}

\* C10: in the loop, an operation that returned Err(e) gives the feedback
\* Error(e) and the loop goes on, one that returned Ok(f) gives f, and the
\* loop ends only by a Quit status or an error of the UI.
C10_Dispatcher ==
  /\ (InUi /\ cmd.name \in UiCommands) =>
       /\ lastResult.ok => feedback = lastResult.f
       /\ ~lastResult.ok => feedback = [k |-> "Error", e |-> lastResult.e, v |-> <<>>]
  /\ (~inLoop /\ rdResult \in {"Ok", "UiErr"} /\ cmd.name # "cleanup") =>
       cmd.name \in {"quit", "ui_error"}
  /\ inLoop => pc # "panic"

(***************************************************************************)
(* Leaving the loop, launching.                                            *)
(***************************************************************************)
ChildAlive == tstate \in {"forked", "stopped", "running"}

\* C11: when run_debugger has returned Ok at a Quit, no traced child is left
\* alive and the breakpoint map has been torn down.
C11_QuitKills ==
  (rdResult = "Ok" /\ cmd.name = "quit") => (~ChildAlive /\ breakpoints = EmptyMap)

\* the launch_debuggee that has returned was called with a debuggee in place
Relaunched == Returned /\ cmd.name = "launch_debuggee" /\ pre.debuggee

\* C12: launch_debuggee called while a debuggee exists returns
\* Err(AlreadyRunning), forks no child and leaves the breakpoint map of the
\* existing debuggee as it was.
C12_AlreadyRunning ==
  (Relaunched /\ pre.path = "file") =>
    /\ lastResult = Err("AlreadyRunning")
    /\ ~HasOp("fork")
    /\ breakpoints = pre.bps

\* C13: launch_debuggee returns Err(ExecutableDoesNotExist) for a path that
\* does not exist and Err(ExecutableIsNotAFile) for one that is not a regular
\* file; it does not fork, and with no debuggee before there is none after.
C13_BadPath ==
  (Returned /\ cmd.name = "launch_debuggee" /\ pre.path \in {"missing", "dir"}) =>
    /\ pre.path = "missing" => lastResult = Err("ExecutableDoesNotExist")
    /\ pre.path = "dir" => lastResult = Err("ExecutableIsNotAFile")
    /\ ~HasOp("fork")
    /\ debuggee = pre.debuggee
    /\ breakpoints = pre.bps
    /\ ~pre.debuggee => tstate = "none"

C13_Witness ==
  /\ Returned
  /\ cmd.name = "launch_debuggee"
  /\ pre.path = "dir"
  /\ lastResult = Err("ExecutableIsNotAFile")
  /\ ~debuggee
  /\ log = <<>>

PtraceOps == {"getregs", "setregs", "peek", "poke", "read", "step", "cont"}

\* C14: the Debuggee exists only when a waitpid has received the initial stop
\* of its child, and no ptrace request is made between the fork and that
\* first waitpid.
C14_InitialStopFirst ==
  /\ debuggee => waited
  /\ ~waited => \A i \in DOMAIN log : log[i][1] \notin PtraceOps

(***************************************************************************)
(* Registers: set_reg and get_reg over the whole Register enum.            *)
(***************************************************************************)
\* how many register operations one behaviour of RegSpec makes
MaxRegCalls == 2
RegValues == {1, 2}

RegNext ==
  \/ LaunchDebuggee("file", TRUE, TRUE)
  \/ TraceeStart
  \/ \E r \in Registers, v \in RegValues : apiCalls < MaxRegCalls /\ SetRegister(r, v)
  \/ \E r \in Registers : apiCalls < MaxRegCalls /\ GetRegister(r)

RegSpec == Init /\ [][RegNext]_vars

BpSnapshot(name, a) ==
  IF name = "bp_disable" /\ cmd = [name |-> "bp_enable", a |-> a] /\ lastResult.ok
    THEN [NoSnapshot EXCEPT !.bps = breakpoints, !.mem = mem, !.mem0 = pre.mem,
                            !.after = "bp_enable"]
    ELSE [NoSnapshot EXCEPT !.bps = breakpoints, !.mem = mem]

BpCall(name, a, r) ==
  /\ pc = "ready"
  /\ debuggee
  /\ a \in DOMAIN breakpoints
  /\ cmd' = [name |-> name, a |-> a]
  /\ pre' = BpSnapshot(name, a)
  /\ Finish([r.w EXCEPT !.bps[a] = r.bp], Res(r.w, Unit))
  /\ UNCHANGED <<debuggee, inLoop, rdResult, apiCalls>>

\* Breakpoint::new(pid, addr)
BreakpointNew(a) ==
  /\ pc = "ready"
  /\ debuggee
  /\ a \notin DOMAIN breakpoints
  /\ cmd' = [name |-> "bp_new", a |-> a]
  /\ pre' = BpSnapshot("bp_new", a)
  /\ Finish([World0 EXCEPT !.bps = MapInsert(@, a, NewBp)], Ok(Unit))
  /\ UNCHANGED <<debuggee, inLoop, rdResult, apiCalls>>

BreakpointEnable(a) == BpCall("bp_enable", a, BpEnable(World0, a, breakpoints[a]))

BreakpointDisable(a) == BpCall("bp_disable", a, BpDisable(World0, a, breakpoints[a]))

BpNext ==
  \/ LaunchDebuggee("file", TRUE, TRUE)
  \/ TraceeStart
  \/ \E a \in BpAddrs : BreakpointNew(a)
  \/ \E a \in BpAddrs : BreakpointEnable(a)
  \/ \E a \in BpAddrs : BreakpointDisable(a)

BpSpec == Init /\ [][BpNext]_vars

\* C16: after an enable that returned Ok the byte at A is 0xCC, saved_byte
\* is the byte that was at A, and every other byte of memory is what it was;
\* after an enable and the disable that follows it the memory is bitwise what
\* it was before the enable.
C16_EnableDisable ==
  /\ (Returned /\ cmd.name = "bp_enable" /\ lastResult.ok) =>
       /\ mem[cmd.a] = INT3
       /\ breakpoints[cmd.a] = [enabled |-> TRUE, saved_byte |-> pre.mem[cmd.a]]
       /\ \A x \in Addrs \ {cmd.a} : mem[x] = pre.mem[x]
  /\ (Returned /\ cmd.name = "bp_disable" /\ pre.after = "bp_enable") =>
       /\ lastResult.ok
       /\ ~breakpoints[cmd.a].enabled
       /\ mem = pre.mem0

C16_Witness ==
  /\ Returned
  /\ cmd = [name |-> "bp_disable", a |-> Entry]
  /\ pre.after = "bp_enable"
  /\ pre.mem[Entry] = INT3
  /\ pre.bps[Entry].saved_byte = Image[Entry]
  /\ mem = Image

\* C17: enable on an enabled breakpoint returns
\* Err(BreakpointIsAlreadyEnabled) and disable on a disabled one returns
\* Err(BreakpointIsAlreadyDisabled); neither reads or writes the tracee's
\* memory, and memory, flag and saved_byte are what they were.
C17_DoubleToggle ==
  /\ (Returned /\ cmd.name = "bp_enable" /\ pre.bps[cmd.a].enabled) =>
       /\ lastResult = Err("BreakpointIsAlreadyEnabled")
       /\ SysCalls = <<>>
       /\ mem = pre.mem
       /\ breakpoints = pre.bps
  /\ (Returned /\ cmd.name = "bp_disable" /\ ~pre.bps[cmd.a].enabled) =>
       /\ lastResult = Err("BreakpointIsAlreadyDisabled")
       /\ SysCalls = <<>>
       /\ mem = pre.mem
       /\ breakpoints = pre.bps

C17_Witness ==
  /\ Returned
  /\ tstate = "stopped"
  /\ cmd = [name |-> "bp_disable", a |-> Entry]
  /\ pre.bps[Entry] = NewBp
  /\ lastResult = Err("BreakpointIsAlreadyDisabled")
  /\ mem[Entry] = Image[Entry]

(***************************************************************************)
(* Functions of their arguments only: FnSpec starts with a call pending    *)
(* (cmd.name = "call", the function and its arguments in cmd.a) and takes  *)
(* the step that runs it.                                                  *)
(***************************************************************************)
fnFrame ==
  <<debuggee, breakpoints, inLoop, feedback, inCont, contSig, sobAddr, tstate,
    stepping, inject, event, stopsig, hitBp, regs, mem, waited, apiCalls, log,
    pre, lastWait, rdResult>>

Pending(fn) == pc = "ready" /\ cmd.name = "call" /\ cmd.a.fn = fn

\* the call returns res
FnReturn(res) ==
  /\ cmd' = [name |-> cmd.a.fn, a |-> cmd.a]
  /\ lastResult' = res
  /\ pc' = "ready"
  /\ UNCHANGED fnFrame

\* the call panics
FnPanic ==
  /\ cmd' = [name |-> cmd.a.fn, a |-> cmd.a]
  /\ pc' = "panic"
  /\ UNCHANGED lastResult
  /\ UNCHANGED fnFrame

(***************************************************************************)
(* Debuggee::get_function_by_addr over the DIEs of the debug information.  *)
(***************************************************************************)
\* largest DW_AT_low_pc among the DIEs
MaxLow == 2
\* most DIEs in the debug information
MaxSubprograms == 2
\* an attribute the DIE does not have
Absent == 0 - 1
HighOffsets == {1, 2}

\* a DIE: its tag, has_children, whether it has DW_AT_name, DW_AT_low_pc (an
\* address relative to the module base) and DW_AT_high_pc (an offset from
\* low)
Die(tag, children, named, low, high) ==
  [tag |-> tag, children |-> children, named |-> named, low |-> low, high |-> high]

Dies ==
  {Die("subprogram", TRUE, TRUE, l, h) : l \in 1 .. MaxLow, h \in HighOffsets}
    \cup {Die("subprogram", FALSE, TRUE, 1, 2), Die("subprogram", TRUE, FALSE, 1, 2),
          Die("subprogram", TRUE, TRUE, Absent, 2), Die("subprogram", TRUE, TRUE, 1, Absent),
          Die("variable", TRUE, TRUE, 1, 2)}

DieLists == UNION {[1 .. n -> Dies] : n \in 0 .. MaxSubprograms}
FnBases == {0, 1}
FnAddrs == 0 .. MaxLow + 3

NoFunction == Fb("None", <<>>)
Function(name, low, high) == Fb("Function", <<[name |-> name, low |-> low, high |-> high]>>)

\* stands for 2^64, the number of values of a u64; every address of the model
\* is far below it
Wrap64 == 65536
\* Addr::relative: self - base in the machine word.  For addr < base the
\* subtraction underflows: it panics where overflow is checked and wraps
\* where it is not
relative_underflows(addr, base) == addr < base
relative(addr, base) == (addr - base) % Wrap64

\* the loop over the DIEs from the i-th on, `fun` the symbol found so far;
\* the name of a DIE stands for its place in the list
RECURSIVE ScanDies(_, _, _, _, _)
ScanDies(dies, i, base, addr, fun) ==
  IF i > Len(dies) THEN fun
  ELSE LET d == dies[i]
           la == d.low
           ha == la + d.high
           addr_rel == relative(addr, base)
       IN  IF d.tag # "subprogram" THEN ScanDies(dies, i + 1, base, addr, fun)
           ELSE IF ~(d.children /\ d.high # Absent /\ d.low # Absent /\ d.named)
             THEN ScanDies(dies, i + 1, base, addr, fun)
           ELSE IF la <= addr_rel /\ ha >= addr_rel
             THEN ScanDies(dies, i + 1, base, addr, Function(i, base + la, base + ha))
           ELSE ScanDies(dies, i + 1, base, addr, fun)

get_function_by_addr(dies, base, addr) == Ok(ScanDies(dies, 1, base, addr, NoFunction))

FunctionCalls ==
  {[fn |-> "get_function_by_addr", dies |-> ds, base |-> b, addr |-> x] :
     ds \in DieLists, b \in FnBases, x \in FnAddrs}

\* the conversion at debugger.rs:109 runs once a subprogram with its
\* attributes is met
MeetsSubprogram(dies) ==
  \E i \in DOMAIN dies :
    /\ dies[i].tag = "subprogram"
    /\ dies[i].children /\ dies[i].named
    /\ dies[i].low # Absent /\ dies[i].high # Absent

GetFunctionByAddr ==
  /\ Pending("get_function_by_addr")
  /\ \/ FnReturn(get_function_by_addr(cmd.a.dies, cmd.a.base, cmd.a.addr))
     \/ /\ MeetsSubprogram(cmd.a.dies)
        /\ relative_underflows(cmd.a.addr, cmd.a.base)
        /\ FnPanic

\* some subprogram with known low and high has low <= rel < high
InSomeFunction(dies, rel) ==
  \E i \in DOMAIN dies :
    /\ dies[i].tag = "subprogram"
    /\ dies[i].low # Absent
    /\ dies[i].high # Absent
    /\ dies[i].low <= rel
    /\ rel < dies[i].low + dies[i].high

\* C18: get_function_by_addr(addr) returns a function exactly when some
\* subprogram with known low and high has low <= rel(addr) < high, and the
\* range of the function it returns contains addr (low <= addr < high).
C18_FunctionRange ==
  (Returned /\ cmd.name = "get_function_by_addr") =>
    /\ lastResult.ok
    /\ lastResult.f.k = "Function" <=> InSomeFunction(cmd.a.dies, cmd.a.addr - cmd.a.base)
    /\ lastResult.f.k = "Function" =>
         /\ lastResult.f.v[1].low <= cmd.a.addr
         /\ cmd.a.addr < lastResult.f.v[1].high

(***************************************************************************)
(* to_value of dwarf_parse.rs: the gimli value of the bytes read for an    *)
(* EvaluationResult::RequiresMemory of `size` bytes.  buff[1] is the byte  *)
(* at the lowest address.                                                  *)
(***************************************************************************)
Sizes == {1, 2, 3, 4, 8}
\* bytes below 128, so that four of them stay within TLC's integers
ByteValues == {0, 1, 127}
Buffers(size) == [1 .. size -> ByteValues]

\* u16::from_be_bytes, u32::from_be_bytes: the first byte is the most
\* significant
RECURSIVE from_be_bytes(_)
from_be_bytes(bytes) ==
  IF Len(bytes) = 0 THEN 0
  ELSE from_be_bytes(SubSeq(bytes, 1, Len(bytes) - 1)) * 256 + bytes[Len(bytes)]

\* the little-endian reading of the same bytes: the first byte is the least
\* significant
RECURSIVE from_le_bytes(_)
from_le_bytes(bytes) ==
  IF Len(bytes) = 0 THEN 0
  ELSE bytes[1] + 256 * from_le_bytes(Tail(bytes))

\* sizes with a match arm in to_value
to_value_sizes == {1, 2, 4}

to_value(size, buff) ==
  CASE size = 1 -> Fb("U8", <<buff[1]>>)
    [] size = 2 -> Fb("U16", <<from_be_bytes(<<buff[1], buff[2]>>)>>)
    [] size = 4 -> Fb("U32", <<from_be_bytes(<<buff[1], buff[2], buff[3], buff[4]>>)>>)

ValueCalls ==
  {[fn |-> "to_value", size |-> n, buff |-> b] :
     n \in {1, 2}, b \in Buffers(2)}
    \cup {[fn |-> "to_value", size |-> n, buff |-> b] :
            n \in {3, 4}, b \in Buffers(4)}
    \cup {[fn |-> "to_value", size |-> 8, buff |-> [i \in 1 .. 8 |-> x]] :
            x \in ByteValues}

ToValue ==
  /\ Pending("to_value")
  /\ IF cmd.a.size \in to_value_sizes
       THEN FnReturn(Ok(to_value(cmd.a.size, cmd.a.buff)))
       ELSE FnPanic

(***************************************************************************)
(* Debuggee::parse_addr_high: the DW_AT_high_pc attribute of a DIE and the *)
(* low address already parsed.                                             *)
(***************************************************************************)
None == Fb("None", <<>>)
Some(x) == Fb("Some", <<x>>)

\* the attribute: absent, or a value in a form whose udata_value() is
\* Some(v) (a constant: an offset from low), or in a form whose
\* udata_value() is None (DW_FORM_addr: an address)
NoAttribute == [form |-> "absent", v |-> 0]
Attribute(form, v) == [form |-> form, v |-> v]
HighAttributes == {NoAttribute} \cup {Attribute(f, v) : f \in {"udata", "addr"}, v \in HighOffsets}
LowAddrs == {None} \cup {Some(l) : l \in 1 .. MaxLow}

udata_value(a) == IF a.form = "udata" THEN Some(a.v) ELSE None

parse_addr_high(attribute, low) ==
  IF attribute.form = "absent" THEN Ok(None)
  ELSE LET a == udata_value(attribute)
       IN  IF a = None THEN Ok(None)
           ELSE IF low # None THEN Ok(Some(low.v[1] + a.v[1]))
           ELSE Err("HighAddrExistsButNotLowAddr")

HighCalls ==
  {[fn |-> "parse_addr_high", attribute |-> a, low |-> l] : a \in HighAttributes, l \in LowAddrs}

ParseAddrHigh ==
  /\ Pending("parse_addr_high")
  /\ FnReturn(parse_addr_high(cmd.a.attribute, cmd.a.low))

(***************************************************************************)
(* VariableValue of variable.rs: byte_size, to_u64, resize_to_bytes.       *)
(***************************************************************************)
\* most bytes of a Bytes value that are not padding
MaxBytes == 2

Bytes(b) == [kind |-> "Bytes", t |-> "", b |-> b, n |-> 0]
Other(w) == [kind |-> "Other", t |-> "", b |-> <<>>, n |-> w]
\* a gimli::Value of type t; for the float types n is the bit pattern
Numeric(t, n) == [kind |-> "Numeric", t |-> t, b |-> <<>>, n |-> n]

ValueTypes == {"U8", "I8", "U16", "I16", "U32", "I32", "F32", "U64", "I64", "F64", "Generic"}
SignedTypes == {"I8", "I16", "I32", "I64"}
FloatTypes == {"F32", "F64"}
\* the width of a value type in bytes
TypeWidth(t) ==
  CASE t \in {"U8", "I8"} -> 1
    [] t \in {"U16", "I16"} -> 2
    [] t \in {"U32", "I32", "F32"} -> 4
    [] t \in {"U64", "I64", "F64", "Generic"} -> WordBytes

PadTo(b, n) == [i \in 1 .. n |-> IF i <= Len(b) THEN b[i] ELSE 0]
ByteVectors ==
  {PadTo(b, n) : b \in UNION {[1 .. k -> ByteValues] : k \in 0 .. MaxBytes},
                 n \in {MaxBytes, 4, WordBytes, WordBytes + 1}}
    \cup UNION {[1 .. k -> ByteValues] : k \in 0 .. MaxBytes}
NumValues == {0, 42, 127}
VariableValues ==
  {Bytes(b) : b \in ByteVectors}
    \cup {Other(w) : w \in NumValues}
    \cup {Numeric(t, n) : t \in ValueTypes, n \in NumValues}
    \cup {Numeric(t, 0 - 1) : t \in {"I8", "I16"}}

\* v.to_ne_bytes() of an integer of `width` bytes on x86-64: little-endian,
\* two's complement
RECURSIVE to_ne_bytes(_, _)
to_ne_bytes(v, width) ==
  IF width = 0 THEN <<>>
  ELSE <<v % 256>> \o to_ne_bytes(v \div 256, width - 1)

\* a bytes_to_u64 that reads the byte at the lowest address only
bytes_to_u64_low_byte(b) == IF Len(b) = 0 THEN 0 ELSE b[1]
\* crate::bytes_to_u64 of at most WordBytes bytes
bytes_to_u64(b) == from_le_bytes(b)

\* VariableValue::byte_size
byte_size(v) ==
  CASE v.kind = "Bytes" -> Len(v.b)
    [] v.kind = "Other" -> WordBytes
    [] v.kind = "Numeric" -> TypeWidth(v.t)

to_u64_panics(v) == v.kind = "Bytes" /\ Len(v.b) > WordBytes

\* VariableValue::to_u64, where it does not panic
to_u64(v) ==
  CASE v.kind = "Bytes" -> bytes_to_u64(v.b)
    [] v.kind = "Other" -> bytes_to_u64(to_ne_bytes(v.n, WordBytes))
    [] v.kind = "Numeric" /\ v.t \in {"U8", "U16", "U32", "U64", "Generic"} -> v.n
    [] v.kind = "Numeric" /\ v.t \in SignedTypes \cup FloatTypes ->
         bytes_to_u64(to_ne_bytes(v.n, TypeWidth(v.t)))

\* a resize_to_bytes that leaves out the truncation
resize_to_bytes_whole(v, target_size) == to_ne_bytes(to_u64(v), WordBytes)
\* VariableValue::resize_to_bytes, where it does not panic
resize_to_bytes(v, target_size) ==
  SubSeq(to_ne_bytes(to_u64(v), WordBytes), 1, target_size)

TargetSizes == 0 .. WordBytes + 1

VariableCalls ==
  {[fn |-> f, v |-> v, target_size |-> 0] : f \in {"byte_size", "to_u64"}, v \in VariableValues}
    \cup {[fn |-> "resize_to_bytes", v |-> v, target_size |-> n] :
            v \in VariableValues, n \in TargetSizes}

ByteSize ==
  /\ Pending("byte_size")
  /\ FnReturn(Ok(Fb("usize", <<byte_size(cmd.a.v)>>)))

ToU64 ==
  /\ Pending("to_u64")
  /\ IF to_u64_panics(cmd.a.v) THEN FnPanic
     ELSE FnReturn(Ok(Fb("u64", <<to_u64(cmd.a.v)>>)))

ResizeToBytes ==
  /\ Pending("resize_to_bytes")
  /\ IF cmd.a.target_size > WordBytes \/ to_u64_panics(cmd.a.v) THEN FnPanic
     ELSE FnReturn(Ok(Fb("Vec<u8>", <<resize_to_bytes(cmd.a.v, cmd.a.target_size)>>)))

FnInit ==
  /\ InitState
  /\ \/ cmd \in {[name |-> "call", a |-> c] : c \in FunctionCalls}
     \/ cmd \in {[name |-> "call", a |-> c] : c \in ValueCalls}
     \/ cmd \in {[name |-> "call", a |-> c] : c \in HighCalls}
     \/ cmd \in {[name |-> "call", a |-> c] : c \in VariableCalls}

FnNext ==
  \/ GetFunctionByAddr
  \/ ToValue
  \/ ParseAddrHigh
  \/ ByteSize
  \/ ToU64
  \/ ResizeToBytes

FnSpec == FnInit /\ [][FnNext]_vars

\* C19: for the sizes 2 and 4, to_value supplies the little-endian
\* interpretation of the bytes read from the debuggee's memory.
C19_LittleEndian ==
  (Returned /\ cmd.name = "to_value" /\ cmd.a.size \in {2, 4}) =>
    /\ lastResult.ok
    /\ lastResult.f.v[1] = from_le_bytes(SubSeq(cmd.a.buff, 1, cmd.a.size))

ValueKind(size) ==
  CASE size = 1 -> "U8" [] size = 2 -> "U16" [] size = 4 -> "U32" [] size = 8 -> "U64"

\* C20: a memory request is satisfied for the sizes 1, 2, 4 and 8, with a
\* U8, U16, U32 or U64 value; for any other size an error is returned to
\* the caller.
C20_SupportedSizes ==
  cmd.name = "to_value" =>
    /\ pc # "panic"
    /\ IF cmd.a.size \in {1, 2, 4, 8}
         THEN lastResult.ok /\ lastResult.f.k = ValueKind(cmd.a.size)
         ELSE ~lastResult.ok

(***************************************************************************)
(* Debuggee::eval_expression against a live tracee.  The gimli Evaluation  *)
(* is the sequence of requests it makes before it completes.               *)
(***************************************************************************)
\* most requests of one evaluation
MaxRequests == 2

RequiresMemory(address, size) == [k |-> "RequiresMemory", n |-> size, a |-> address]
RequiresRegister(register) == [k |-> "RequiresRegister", n |-> register, a |-> 0]
EvalRequests ==
  {RequiresMemory(DataAddr, 1), RequiresMemory(DataAddr, 8),
   RequiresRegister(0), RequiresRegister(999)}
Evaluations == UNION {[1 .. n -> EvalRequests] : n \in 0 .. MaxRequests}

UnimplementedRegister(n) == "UnimplementedRegister(" \o ToString(n) \o ")"

\* a conversion that takes every register number for rax
RegisterTryFromAny(n) == [ok |-> TRUE, reg |-> "rax", e |-> ""]
\* Register::try_from(gimli::Register): the System V AMD64 numbering, of
\* which the model keeps rax (0) and the return address column (16)
RegisterTryFrom(n) ==
  IF n = 0 THEN [ok |-> TRUE, reg |-> "rax", e |-> ""]
  ELSE IF n = 16 THEN [ok |-> TRUE, reg |-> "rip", e |-> ""]
  ELSE [ok |-> FALSE, reg |-> "", e |-> UnimplementedRegister(n)]

\* crate::mem_read of n bytes at a
mem_read(w, a, n) ==
  LET w1 == Log(w, "read", a)
  IN  IF ~Traceable(w) THEN NotStopped(w1)
      ELSE IF ~(a \in Addrs /\ a + n - 1 \in Addrs) THEN Fail(w1, "Os(EIO)")
      ELSE w1

Panicked(w) == w.err = "panic"

\* the loop of eval_expression from the i-th request on
RECURSIVE EvalLoop(_, _, _)
EvalLoop(w, reqs, i) ==
  IF i > Len(reqs) THEN Fail(Log(w, "Complete", 0), "panic")
  ELSE LET q == reqs[i]
       IN  IF q.k = "RequiresMemory"
             THEN LET w1 == mem_read(Log(w, "RequiresMemory", q.n), q.a, q.n)
                  IN  IF Failed(w1) THEN w1
                      ELSE IF q.n \notin to_value_sizes THEN Fail(w1, "panic")
                      ELSE EvalLoop(w1, reqs, i + 1)
           ELSE LET w1 == Log(w, "RequiresRegister", q.n)
                    reg == RegisterTryFrom(q.n)
                IN  IF ~reg.ok THEN Fail(w1, reg.e)
                    ELSE LET w2 == getregs(w1)
                         IN  IF Failed(w2) THEN w2 ELSE EvalLoop(w2, reqs, i + 1)

eval_expression(w, evaluation) == EvalLoop(w, evaluation, 1)

EvalExpression(evaluation) ==
  /\ InApi
  /\ BeginWith("eval_expression", evaluation,
               [NoSnapshot EXCEPT !.debuggee = debuggee, !.tstate = tstate,
                                  !.bps = breakpoints, !.mem = mem, !.regs = regs])
  /\ LET w == eval_expression(World0, evaluation)
     IN  IF Panicked(w) THEN Panic(w) ELSE Finish(w, Res(w, Fb("Location", <<>>)))
  /\ UNCHANGED <<debuggee, inLoop, rdResult>>

EvalNext ==
  \/ LaunchDebuggee("file", TRUE, TRUE)
  \/ TraceeStart
  \/ \E evaluation \in Evaluations : EvalExpression(evaluation)
  \/ \E r \in CmdRegs : GetRegister(r)

EvalSpec == Init /\ [][EvalNext]_vars

\* the evaluation got as far as requesting the register n, which has no
\* Register, and the tracee has not moved since
RequestedUnsupported(n) ==
  /\ cmd.name = "eval_expression"
  /\ pc \in {"ready", "panic"}
  /\ n \notin {0, 16}
  /\ Count("RequiresRegister", n) >= 1
  /\ ~HasOp("execv")

C22_HighWithoutLow ==
  (Returned /\ cmd.name = "parse_addr_high") =>
    LET attribute == cmd.a.attribute
        low == cmd.a.low
    IN  /\ (attribute.form # "absent" /\ low = None) =>
             lastResult = Err("HighAddrExistsButNotLowAddr")
        /\ (attribute.form = "udata" /\ low # None) =>
             lastResult = Ok(Some(low.v[1] + attribute.v))
        /\ attribute.form = "absent" => lastResult = Ok(None)

\* C23: the conversion of an absolute address to a module-relative one never
\* wraps silently: where get_function_by_addr converts an addr below the
\* module base, the call returns an error.
C23_RelativeUnderflow ==
  (cmd.name = "get_function_by_addr" /\ MeetsSubprogram(cmd.a.dies)
     /\ cmd.a.addr < cmd.a.base) =>
    /\ pc = "ready"
    /\ ~lastResult.ok

(***************************************************************************)
(* rip around a breakpoint hit.                                            *)
(***************************************************************************)
\* the cont has returned with the tracee stopped by the int3 at L, the last
\* thing the tracee did
StoppedByInt3At(L) ==
  /\ Returned
  /\ cmd.name = "cont"
  /\ tstate = "stopped"
  /\ hitBp
  /\ Len(log) >= 2
  /\ log[Len(log) - 1] = <<"int3", L>>

\* C24: when the tracee stops by executing the int3 of a breakpoint at L,
\* rip is L + 1 at that stop; when a step_over_bp that began at such a stop
\* (an enabled breakpoint at rip - 1 = L) has returned Ok with the tracee
\* stopped, rip is L.
C24_RipAfterStepOver ==
  /\ \A L \in TextAddrs : StoppedByInt3At(L) => regs["rip"] = L + 1
  /\ (Returned /\ cmd.name = "step_over_bp" /\ AtEnabledBp /\ pre.hitBp
        /\ lastResult.ok /\ tstate = "stopped") =>
       regs["rip"] = pre.rip - 1

(***************************************************************************)
(* VariableValue.                                                          *)
(***************************************************************************)
\* the value holds an integer: not a float, and Bytes of at most a word
HoldsInteger(v) ==
  /\ v.kind = "Numeric" => v.t \notin FloatTypes
  /\ v.kind = "Bytes" => Len(v.b) <= WordBytes
\* the integer it holds; of Bytes, the little-endian unsigned reading
IntegerOf(v) == IF v.kind = "Bytes" THEN from_le_bytes(v.b) ELSE v.n

\* C25: for a VariableValue holding a non-negative integer n, to_u64 returns
\* n; byte_size returns 1, 2, 4 or 8 for Numeric according to the value
\* type, 8 for Other and the length of the vector for Bytes.
C25_VariableValueSizing ==
  /\ (cmd.name = "to_u64" /\ HoldsInteger(cmd.a.v) /\ IntegerOf(cmd.a.v) >= 0) =>
       /\ pc = "ready"
       /\ lastResult = Ok(Fb("u64", <<IntegerOf(cmd.a.v)>>))
  /\ cmd.name = "byte_size" =>
       /\ pc = "ready"
       /\ lastResult.ok
       /\ lastResult.f.v[1] =
            (CASE cmd.a.v.kind = "Bytes" -> Len(cmd.a.v.b)
               [] cmd.a.v.kind = "Other" -> 8
               [] cmd.a.v.kind = "Numeric" /\ cmd.a.v.t \in {"U8", "I8"} -> 1
               [] cmd.a.v.kind = "Numeric" /\ cmd.a.v.t \in {"U16", "I16"} -> 2
               [] cmd.a.v.kind = "Numeric" /\ cmd.a.v.t \in {"U32", "I32", "F32"} -> 4
               [] OTHER -> 8)

C25_Witness ==
  /\ Returned
  /\ cmd.name = "to_u64"
  /\ cmd.a.v = Bytes(<<1, 127, 0, 0>>)
  /\ lastResult.f.v[1] = 1 + 127 * 256

\* the i-th least significant byte of n (i from 1)
RECURSIVE ByteOf(_, _)
ByteOf(n, i) == IF i = 1 THEN n % 256 ELSE ByteOf(n \div 256, i - 1)

C27_OnlyWhileStopped ==
  inLoop =>
    /\ Count("not_stopped", 1) = 0
    /\ ~HasOp("not_stopped")

(***************************************************************************)
(* Frame conditions of set_bp and step_over_bp.                            *)
(***************************************************************************)
\* C28: set_bp(A) inserts into the map only after the enable succeeded: when
\* it returns an error (that of the enable, or NoDebugee) the map is as it
\* was; when it returns Ok for an A not in the map before, the map is the
\* old one with an enabled breakpoint at A added.
C28_InsertAfterEnable ==
  (Returned /\ cmd.name = "set_bp") =>
    /\ ~lastResult.ok =>
         /\ breakpoints = pre.bps
         /\ lastResult.e \in {"NoDebugee", "Os(ESRCH)", "Os(EIO)"}
    /\ (lastResult.ok /\ cmd.a \notin DOMAIN pre.bps) =>
         /\ DOMAIN breakpoints = DOMAIN pre.bps \cup {cmd.a}
         /\ breakpoints[cmd.a].enabled
         /\ \A a \in DOMAIN pre.bps : breakpoints[a] = pre.bps[a]

C28_Witness ==
  /\ Returned
  /\ cmd = [name |-> "set_bp", a |-> 0]
  /\ tstate = "stopped"
  /\ lastResult.e = "Os(EIO)"
  /\ DOMAIN pre.bps = {Entry}
  /\ breakpoints = pre.bps

\* the operation began with the tracee stopped, rip - 1 an address, and no
\* enabled breakpoint registered at rip - 1
NoEnabledBpAtProbe ==
  /\ debuggee
  /\ pre.tstate = "stopped"
  /\ pre.rip > 0
  /\ ~(pre.rip - 1 \in DOMAIN pre.bps /\ pre.bps[pre.rip - 1].enabled)

C30_RewindOnlyAfterTrap ==
  (cmd.name = "cont" /\ AtEnabledBp /\ ~pre.hitBp) =>
    /\ Count("setregs", pre.rip - 1) = 0
    /\ Count("exec", pre.rip - 1) = 0

(***************************************************************************)
(* rip = 0, and the breakpoint map between the commands of the loop.       *)
(***************************************************************************)
\* C31: step_over_bp computes rip - 1 without underflow: called with the
\* tracee stopped at rip = 0 it does not panic, its probe is not 2^64 - 1,
\* and it returns Ok with the registers, the memory and the breakpoint map
\* as they were.
C31_ProbeNoUnderflow ==
  (cmd.name = "step_over_bp" /\ debuggee /\ pre.tstate = "stopped" /\ pre.rip = 0) =>
    /\ pc = "ready"
    /\ Probe(pre.rip) # U64Max
    /\ lastResult.ok
    /\ regs = pre.regs
    /\ mem = pre.mem
    /\ breakpoints = pre.bps

\* C32: whenever the loop of run_debugger is about to take a command,
\* whatever the previous one returned, every breakpoint in the map is
\* enabled.
C32_MapHoldsEnabled ==
  (inLoop /\ pc = "ready") => \A a \in DOMAIN breakpoints : breakpoints[a].enabled

(***************************************************************************)
(* Debuggee::var_write to a variable located at a memory address, against  *)
(* a live tracee.  The symbol passes check_sym_variable_ok, its datatype   *)
(* has the byte size n and its location evaluates to DataAddr.             *)
(***************************************************************************)
\* how many var_write one behaviour of VarSpec makes
MaxVarCalls == 1
DatatypeSizes == {1, 2, 4, 8}

\* crate::mem_write of the bytes at a: the number of bytes written is
\* Len(bytes)
mem_write(w, a, bytes) ==
  LET w1 == Log(w, "write", a)
  IN  IF ~Traceable(w) THEN NotStopped(w1)
      ELSE IF ~(a \in Addrs /\ a + Len(bytes) - 1 \in Addrs) THEN Fail(w1, "Os(EIO)")
      ELSE [w1 EXCEPT !.mem = [x \in Addrs |->
                                 IF x >= a /\ x < a + Len(bytes) THEN bytes[x - a + 1] ELSE @[x]]]

\* the Address arm of var_write (variable.rs:124-135)
var_write(w, value, byte_size_of_type) ==
  IF byte_size_of_type > WordBytes \/ to_u64_panics(value) THEN Fail(w, "panic")
  ELSE LET value_raw == resize_to_bytes(value, byte_size_of_type)
           w1 == mem_write(w, DataAddr, value_raw)
           written == Len(value_raw)
       IN  IF Failed(w1) THEN w1
           ELSE IF written # byte_size(value) THEN Fail(w1, "panic")
           ELSE w1

VarWrite(value, n) ==
  /\ InApi
  /\ apiCalls < MaxVarCalls
  /\ BeginWith("var_write", [v |-> value, n |-> n],
               [NoSnapshot EXCEPT !.debuggee = debuggee, !.tstate = tstate, !.mem = mem])
  /\ LET w == var_write(World0, value, n)
     IN  IF Panicked(w) THEN Panic(w) ELSE Finish(w, Res(w, Fb("Unit", <<>>)))
  /\ UNCHANGED <<debuggee, inLoop, rdResult>>

VarNext ==
  \/ LaunchDebuggee("file", TRUE, TRUE)
  \/ TraceeStart
  \/ \E value \in VariableValues, n \in DatatypeSizes : VarWrite(value, n)

VarSpec == Init /\ [][VarNext]_vars

\* C33: with the tracee stopped, var_write of any VariableValue to a
\* variable at a memory address whose datatype has n <= 8 bytes returns Ok,
\* its assertion holding, and has written the n low-order bytes of the
\* value, and nothing else, to the variable.
C33_VarWriteAnyValue ==
  (cmd.name = "var_write" /\ pre.tstate = "stopped") =>
    /\ pc = "ready"
    /\ lastResult.ok
    /\ \A x \in Addrs :
         mem[x] = IF x >= DataAddr /\ x < DataAddr + cmd.a.n
                    THEN ByteOf(IntegerOf(cmd.a.v), x - DataAddr + 1)
                    ELSE pre.mem[x]

(***************************************************************************)
(* The forked child of launch_debuggee, statement by statement             *)
(* (debugger.rs:174-183).  tstate "forked": before ptrace::traceme;        *)
(* "traced": traceme returned Ok; "returned": the child has left           *)
(* launch_debuggee with an Err and runs on as a copy of the debugger;      *)
(* "stopped": execv has replaced the image, the child is in its exec stop. *)
(***************************************************************************)
\* an execv that is reached whatever traceme returned
ReachesExecvAlways(t) == t \in {"traced", "returned"}
\* control reaches execv only past the `?` of ptrace::traceme()
ReachesExecv(t) == t = "traced"

ChildFrame ==
  <<debuggee, breakpoints, inLoop, feedback, pc, inCont, contSig, sobAddr, waited,
    stepping, inject, hitBp, mem, apiCalls, cmd, pre, lastResult, lastWait, rdResult>>

\* ptrace::traceme()?
ChildTraceme(ok) ==
  /\ tstate = "forked"
  /\ tstate' = IF ok THEN "traced" ELSE "returned"
  /\ TraceeLog("traceme", IF ok THEN 0 ELSE 1)
  /\ UNCHANGED <<event, stopsig, regs>>
  /\ UNCHANGED ChildFrame

\* execv(&cpath, args)?: on success the new image stops with SIGTRAP
ChildExecv(ok) ==
  /\ ReachesExecv(tstate)
  /\ tstate \notin {"stopped", "running", "zombie", "reaped", "none"}
  /\ IF ok
       THEN /\ tstate' = "stopped"
            /\ stopsig' = "SIGTRAP"
            /\ event' = Stopped("SIGTRAP")
            /\ regs' = [regs EXCEPT !["rip"] = Entry]
            /\ TraceeLog("execv", 0)
       ELSE /\ tstate' = "returned"
            /\ TraceeLog("execv", 1)
            /\ UNCHANGED <<event, stopsig, regs>>
  /\ UNCHANGED ChildFrame

ChildNext ==
  \/ \E p \in PathKinds, objOk \in BOOLEAN, forkOk \in BOOLEAN : LaunchDebuggee(p, objOk, forkOk)
  \/ \E ok \in BOOLEAN : ChildTraceme(ok)
  \/ \E ok \in BOOLEAN : ChildExecv(ok)
  \/ Wait
  \/ WaitReturn
  \/ \E a \in BpAddrs : SetBreakpoint(a)
  \/ DumpRegisters

ChildSpec == Init /\ [][ChildNext]_vars

\* C34: the child requests PTRACE_TRACEME before execv: the target image
\* starts only in a child whose traceme returned Ok, and a child whose
\* traceme failed never executes it.
C34_TracemeBeforeExecv ==
  [][/\ (tstate # "stopped" /\ tstate' = "stopped") => tstate = "traced"
     /\ tstate = "returned" => tstate' \in {"returned", "forked"}]_vars

C34_Witness ==
  /\ tstate = "returned"
  /\ debuggee
  /\ log # <<>>
  /\ log[Len(log)] = <<"traceme", 1>>

====
